---- MODULE Spec2Model ----
(***************************************************************************)
(* The feed client BinanceWebSocket of src/src/services/binance.ts as a   *)
(* state machine: one action per public method, socket event, timer       *)
(* callback and window event.  Methods are record transformers over the   *)
(* object's fields (the record `Self`), so that a handler that calls      *)
(* other methods is one atomic action, as it is one run-to-completion     *)
(* task of the single-threaded event loop.                                 *)
(*                                                                         *)
(* Time is abstracted: a timer is pending or not and fires at any moment; *)
(* the two comparisons of Date.now() against a stored time are kept as    *)
(* the booleans `stale` (now - lastMessageTime > 60000) and the state of  *)
(* the pending pong check (whether lastPongTime was written since the     *)
(* ping it belongs to was sent).                                           *)
(***************************************************************************)
EXTENDS Integers, Sequences, FiniteSets, Bags, TLC

VARIABLES
  ws,                     \* this.ws and its readyState: "null", "CONNECTING", "OPEN", "CLOSED"
  wsOwner,                \* the connect loop whose onOpen closure this.ws.onopen holds (0: none)
  subscriptionCounts,     \* Map<string, number>, in insertion order: a sequence of <<symbol, count>>
  callbacks,              \* Map<string, Set<callback>>: per symbol the Set in insertion order
  pendingSubscriptions,   \* Set<string>
  lastData,               \* Map<string, CachedData>: per symbol a snapshot or Absent
  reconnectAttempts,
  isReconnecting,
  isOnline,
  isInitialized,
  heartbeatInterval,      \* TRUE while the setInterval of startHeartbeat is set
  heartbeats,             \* the setInterval timers of startHeartbeat that no clearInterval has stopped
  connectionCheckInterval,\* TRUE while the setInterval of startConnectionCheck is set
  stale,                  \* Date.now() - lastMessageTime > 60000
  pongCheck,              \* the pending pong-timeout check: "none", "unacked", "acked"
  loops,                  \* connectToEndpoints loops awaiting tryConnect: loop -> endpoint index (0: not running)
  reconnectTimers,        \* bag of pending setTimeout callbacks of handleReconnect
  boot,                   \* initializeConnection: "fetching", "done", "failed"
  closed,                 \* history: close() has been called
  episode,                \* history: per symbol, the subscribe/unsubscribe run on this connection
  requested,              \* history: the streams requested on the open connection (SUBSCRIBE minus later UNSUBSCRIBE)
  out,                    \* history: what the last step did
  slots,                  \* the loops and the pending reconnect timers a behaviour is explored with
  node                    \* the BinanceWebSocket of src/unnamed/part_014 (the Node client)

vars == <<node, slots, requested, ws, wsOwner, subscriptionCounts, callbacks, pendingSubscriptions, lastData,
          reconnectAttempts, isReconnecting, isOnline, isInitialized, heartbeatInterval,
          heartbeats, connectionCheckInterval, stale, pongCheck, loops, reconnectTimers, boot,
          closed, episode, out>>

---------------------------------------------------------------------------
(* Bounds of the model *)

\* connectToEndpoints loops that may be awaiting a connect timeout at once
MaxLoops == 2
\* handleReconnect timers that may be pending at once
MaxTimers == 2
\* cap of a symbol's reference count
MaxCount == 3

(* Program constants *)

maxReconnectAttempts == 15
baseReconnectDelay == 2000
maxBackoffDelay == 45000
\* backoffMultiplier = 1.5, as the fraction 3/2
backoffMultiplier == <<3, 2>>
\* wsEndpoints.length
NumEndpoints == 2

defaultSymbols == {"BTCUSDT", "ETHUSDT", "BNBUSDT"}

\* Symbols callers subscribe to and frames carry: one default, one not.
Symbols == {"BTCUSDT", "DOGEUSDT"}
AllSymbols == defaultSymbols \cup Symbols

\* Subscriber callbacks; those of Throwing throw when invoked.
Callbacks == {"cb1", "cb2", "cb3"}
Throwing == {"cb3"}
\* A subscriber callback that, when invoked with a snapshot, calls
\* unsubscribe(snapshot.symbol, itself) and returns.
Unsubscribing == {"cb4"}
\* A subscriber callback that, when invoked with a snapshot, calls
\* subscribe(snapshot.symbol, Subscribed) and returns.
Subscribing == {"cb5"}
Subscribed == "cb6"

---------------------------------------------------------------------------
(* Values *)

\* Map.get of a key that is not there (undefined), for lastData.
Absent == [absent |-> TRUE]

\* A field of a received JSON object is a string; "undefined" when missing.
undefined == "undefined"
PriceFields == {"100", "0", "-1", "abc", undefined}
VolumeFields == {"7", "-5"}
NumericStrings == {"100", "7", "0", "-1", "-5"}

\* A JS number: NaN, or the integer val.
Num(n) == [nan |-> FALSE, val |-> n]
NaN == [nan |-> TRUE, val |-> 0]

\* parseFloat on the strings of the model; undefined and non-numeric text give NaN.
ParseFloat(f) ==
  CASE f = "100" -> Num(100)
    [] f = "7"   -> Num(7)
    [] f = "0"   -> Num(0)
    [] f = "-1"  -> Num(-1)
    [] f = "-5"  -> Num(-5)
    [] OTHER     -> NaN

\* x || 0 for a number x: NaN and 0 are falsy.
OrZero(x) == IF x.nan \/ x.val = 0 THEN 0 ELSE x.val

\* isNaN(v) of a string v: Number(v) is NaN unless v is numeric text.
IsNaNString(v) == v \notin NumericStrings

\* `${symbol.toLowerCase()}@ticker`
ToLowerCase(s) ==
  CASE s = "BTCUSDT"  -> "btcusdt"
    [] s = "DOGEUSDT" -> "dogeusdt"
    [] s = "ETHUSDT"  -> "ethusdt"
    [] s = "BNBUSDT"  -> "bnbusdt"
    [] OTHER          -> s
StreamName(s) ==
  CASE ToLowerCase(s) = "btcusdt"  -> "btcusdt@ticker"
    [] ToLowerCase(s) = "dogeusdt" -> "dogeusdt@ticker"
    [] ToLowerCase(s) = "ethusdt"  -> "ethusdt@ticker"
    [] ToLowerCase(s) = "bnbusdt"  -> "bnbusdt@ticker"
    [] OTHER                       -> "@ticker"

\* PriceData: symbol, price and volume; priceChange, priceChangePercent, high24h
\* and low24h are computed from their fields as volume is from its field and are
\* left out, as is lastUpdate, a clock reading.
PriceData(sym, p, v) == [symbol |-> sym, price |-> p, volume |-> v]
defaultData(sym) == PriceData(sym, 0, 0)

(* Map<string, number> kept as a sequence of <<key, value>> in insertion order *)
MapKeys(m) == [i \in 1..Len(m) |-> m[i][1]]
MapHas(m, k) == \E i \in 1..Len(m) : m[i][1] = k
\* this.subscriptionCounts.get(symbol) || 0
CountOf(m, k) == IF MapHas(m, k) THEN m[CHOOSE i \in 1..Len(m) : m[i][1] = k][2] ELSE 0
MapSet(m, k, v) ==
  IF MapHas(m, k)
    THEN [i \in 1..Len(m) |-> IF m[i][1] = k THEN <<k, v>> ELSE m[i]]
    ELSE Append(m, <<k, v>>)
MapDelete(m, k) == SelectSeq(m, LAMBDA e : e[1] # k)

(* Set<callback> kept as a sequence without repetition, in insertion order *)
SetHas(q, x) == \E i \in 1..Len(q) : q[i] = x
SetAdd(q, x) == IF SetHas(q, x) THEN q ELSE Append(q, x)
SetDelete(q, x) == SelectSeq(q, LAMBDA e : e # x)

---------------------------------------------------------------------------
(* The object: its fields, and what the running handler has done so far *)

Self ==
  [ws |-> ws, wsOwner |-> wsOwner, subscriptionCounts |-> subscriptionCounts,
   callbacks |-> callbacks, pendingSubscriptions |-> pendingSubscriptions,
   lastData |-> lastData, reconnectAttempts |-> reconnectAttempts,
   isReconnecting |-> isReconnecting, isOnline |-> isOnline,
   isInitialized |-> isInitialized, heartbeatInterval |-> heartbeatInterval,
   heartbeats |-> heartbeats, slots |-> slots,
   connectionCheckInterval |-> connectionCheckInterval, stale |-> stale,
   pongCheck |-> pongCheck, loops |-> loops, reconnectTimers |-> reconnectTimers,
   boot |-> boot, closed |-> closed, episode |-> episode,
   threw |-> FALSE,     \* an exception left the handler
   created |-> 0,       \* new WebSocket(...) calls
   sent |-> <<>>,       \* ws.send(...) calls, in order
   calls |-> <<>>,      \* subscriber callbacks invoked, in order
   ret |-> Absent,      \* the value returned to the caller
   rejected |-> "none", \* the symbol of a ticker processTicker did not store
   logged |-> FALSE,    \* the catch block of onmessage ran
   over |-> FALSE]      \* a bound of the model was exceeded

Msg(method, params) == [method |-> method, params |-> params]
Call(cb, data) == [cb |-> cb, data |-> data, threw |-> cb \in Throwing]

\* The smallest loop slot not in use (0 when all are).
FreeLoop(o) ==
  IF \E i \in DOMAIN o.loops : o.loops[i] = 0
    THEN CHOOSE i \in DOMAIN o.loops : o.loops[i] = 0 /\ \A j \in 1..(i-1) : o.loops[j] # 0
    ELSE 0

\* A delay is a number of 1/8 ms: 2000 * 1.5^n is a multiple of 1/8 ms as long
\* as it is below maxBackoffDelay.
PerMs == 8

\* baseReconnectDelay * Math.pow(backoffMultiplier, n); a product above
\* maxBackoffDelay is not multiplied further (Math.min discards it).
RECURSIVE scaledDelay(_)
scaledDelay(n) ==
  IF n = 0 THEN baseReconnectDelay * PerMs
  ELSE LET d == scaledDelay(n - 1)
       IN IF d > maxBackoffDelay * PerMs THEN d
          ELSE (d * backoffMultiplier[1]) \div backoffMultiplier[2]

\* The delay computed from the counter before its increment
reconnectDelay_BeforeIncrement(n) ==
  IF scaledDelay(n - 1) < maxBackoffDelay * PerMs
    THEN scaledDelay(n - 1) ELSE maxBackoffDelay * PerMs

\* Math.min(baseReconnectDelay * Math.pow(backoffMultiplier, n), maxBackoffDelay)
reconnectDelay(n) ==
  IF scaledDelay(n) < maxBackoffDelay * PerMs
    THEN scaledDelay(n) ELSE maxBackoffDelay * PerMs

\* A pending setTimeout of handleReconnect: its kind, the counter when it was
\* scheduled, and its delay
Timer(kind, n) ==
  [kind |-> kind, n |-> n,
   delay |-> IF kind = "backoff" THEN reconnectDelay(n) ELSE 60000 * PerMs]
AddTimer(o, t) ==
  IF BagCardinality(o.reconnectTimers) >= o.slots.timers
    THEN [o EXCEPT !.over = TRUE]
    ELSE [o EXCEPT !.reconnectTimers = @ (+) SetToBag({t})]

\* The cooldown timer handleReconnect schedules at the ceiling
Cooldown == Timer("cooldown", maxReconnectAttempts)

\* handleReconnect that counts and schedules a backoff timer at the ceiling too
handleReconnect_NoCeiling(o) ==
  IF o.isReconnecting \/ ~o.isOnline THEN o
  ELSE AddTimer([o EXCEPT !.reconnectAttempts = @ + 1],
                Timer("backoff", o.reconnectAttempts + 1))

\* handleReconnect(): schedules the backoff timer or the 60 s cooldown.
handleReconnect(o) ==
  IF o.isReconnecting \/ ~o.isOnline THEN o
  ELSE IF o.reconnectAttempts < maxReconnectAttempts
    THEN AddTimer([o EXCEPT !.reconnectAttempts = @ + 1],
                  Timer("backoff", o.reconnectAttempts + 1))
    ELSE AddTimer(o, Timer("cooldown", o.reconnectAttempts))

\* cleanup that calls handleReconnect() whatever its argument
cleanup_AlwaysReconnects(o, reconnect) ==
  LET o1 == IF o.ws # "null" THEN [o EXCEPT !.ws = "null", !.wsOwner = 0] ELSE o
      o2 == IF o1.heartbeatInterval
              THEN [o1 EXCEPT !.heartbeatInterval = FALSE, !.heartbeats = @ - 1]
              ELSE o1
  IN handleReconnect(o2)

\* cleanup(reconnect): drops the handlers and the handle, stops the heartbeat.
cleanup(o, reconnect) ==
  LET o1 == IF o.ws # "null" THEN [o EXCEPT !.ws = "null", !.wsOwner = 0] ELSE o
      o2 == IF o1.heartbeatInterval
              THEN [o1 EXCEPT !.heartbeatInterval = FALSE, !.heartbeats = @ - 1]
              ELSE o1
  IN IF reconnect THEN handleReconnect(o2) ELSE o2

\* tryConnect(endpoint) of loop L up to the promise it returns.
tryConnect(o, L, ep) ==
  LET o1 == cleanup(o, FALSE)
  IN [o1 EXCEPT !.ws = "CONNECTING", !.wsOwner = L, !.loops[L] = ep,
                !.created = @ + 1]

\* connect() without the test of isReconnecting and isOnline
connect_NoGuard(o) ==
  IF FreeLoop(o) = 0 THEN [o EXCEPT !.over = TRUE]
  ELSE tryConnect([o EXCEPT !.isReconnecting = TRUE], FreeLoop(o), 1)

\* connect(): the guard, then connectToEndpoints() up to its first await.
connect(o) ==
  IF o.isReconnecting \/ ~o.isOnline THEN o
  ELSE IF FreeLoop(o) = 0 THEN [o EXCEPT !.over = TRUE]
  ELSE tryConnect([o EXCEPT !.isReconnecting = TRUE], FreeLoop(o), 1)

\* resubscribeAll that replays the first key of subscriptionCounts only
resubscribeAll_FirstOnly(o) ==
  IF o.ws = "OPEN" /\ Len(o.subscriptionCounts) > 0
    THEN [o EXCEPT !.sent = Append(@, Msg("SUBSCRIBE",
                             <<StreamName(MapKeys(o.subscriptionCounts)[1])>>))]
    ELSE o

\* resubscribeAll()
resubscribeAll(o) ==
  IF o.ws = "OPEN" /\ Len(o.subscriptionCounts) > 0
    THEN LET keys == MapKeys(o.subscriptionCounts)
             streams == [i \in 1..Len(keys) |-> StreamName(keys[i])]
         IN [o EXCEPT !.sent = Append(@, Msg("SUBSCRIBE", streams))]
    ELSE o

\* unsubscribe(symbol, callback)
unsubscribe(o, symbol, callback) ==
  LET count == CountOf(o.subscriptionCounts, symbol)
      o1 == IF count > 0
              THEN IF count = 1
                     THEN [o EXCEPT !.pendingSubscriptions = @ \ {symbol},
                                    !.sent = IF o.ws = "OPEN"
                                               THEN Append(@, Msg("UNSUBSCRIBE", <<StreamName(symbol)>>))
                                               ELSE @,
                                    !.subscriptionCounts = MapDelete(@, symbol)]
                     ELSE [o EXCEPT !.subscriptionCounts = MapSet(@, symbol, count - 1)]
              ELSE o
  IN [o1 EXCEPT !.callbacks[symbol] = SetDelete(@, callback)]

RECURSIVE subscribe(_, _, _)

\* callback(data): the call, and what the callback does while it runs
RECURSIVE Invoke(_, _, _)
Invoke(o, cb, data) ==
  LET o1 == [o EXCEPT !.calls = Append(@, Call(cb, data))]
  IN CASE cb \in Unsubscribing -> unsubscribe(o1, data.symbol, cb)
       [] cb \in Subscribing ->
            IF CountOf(o1.subscriptionCounts, data.symbol) >= MaxCount
              THEN [o1 EXCEPT !.over = TRUE]
              ELSE subscribe(o1, data.symbol, Subscribed)
       [] OTHER -> o1

\* forEach from the last callback to the first
forEachCallback_Reversed(o, q, data) ==
  [o EXCEPT !.calls = @ \o [i \in 1..Len(q) |-> Call(q[Len(q) + 1 - i], data)]]

\* forEach without the try/catch: the first callback that throws ends the loop
forEachCallback_NoCatch(o, q, data) ==
  LET stop == IF \E i \in 1..Len(q) : q[i] \in Throwing
                THEN CHOOSE i \in 1..Len(q) :
                       q[i] \in Throwing /\ \A j \in 1..(i-1) : q[j] \notin Throwing
                ELSE Len(q)
  IN [o EXCEPT !.calls = @ \o [i \in 1..stop |-> Call(q[i], data)],
               !.threw = \E i \in 1..Len(q) : q[i] \in Throwing]

\* A loop over the positions of the live list, as of an array that is spliced
\* while it is iterated: removing the current element skips the next one
RECURSIVE forEachLive(_, _, _)
forEachLive(o, i, data) ==
  IF i > Len(o.callbacks[data.symbol]) THEN o
  ELSE forEachLive(Invoke(o, o.callbacks[data.symbol][i], data), i + 1, data)

forEachCallback_LiveIndex(o, q, data) == forEachLive(o, 1, data)

\* Set.prototype.forEach with `rest` the elements still to visit, in insertion
\* order: an element deleted before its turn is not visited, an element added
\* while the loop runs is visited after the others; the exception of a
\* callback is caught and logged.
RECURSIVE forEachFrom(_, _, _)
forEachFrom(o, rest, data) ==
  IF rest = <<>> THEN o
  ELSE LET o1 == Invoke(o, Head(rest), data)
           before == o.callbacks[data.symbol]
           after == o1.callbacks[data.symbol]
           Kept(cb) == SetHas(after, cb)
           Added(cb) == ~SetHas(before, cb)
       IN forEachFrom(o1, SelectSeq(Tail(rest), Kept) \o SelectSeq(after, Added), data)

\* callbacks.forEach(callback => { try { callback(priceData) } catch ... })
forEachCallback(o, q, data) == forEachFrom(o, q, data)

\* processTicker without the test of priceData.price > 0
processTicker_NoPriceCheck(o, ticker) ==
  IF ticker.s = undefined THEN o
  ELSE LET priceData == PriceData(ticker.s, OrZero(ParseFloat(ticker.c)),
                                  OrZero(ParseFloat(ticker.v)))
       IN forEachCallback([o EXCEPT !.lastData[ticker.s] = priceData],
                          o.callbacks[ticker.s], priceData)

\* processTicker(ticker)
processTicker(o, ticker) ==
  IF ticker.s = undefined THEN o
  ELSE LET priceData == PriceData(ticker.s, OrZero(ParseFloat(ticker.c)),
                                  OrZero(ParseFloat(ticker.v)))
       IN IF priceData.price > 0
            THEN forEachCallback([o EXCEPT !.lastData[ticker.s] = priceData],
                                 o.callbacks[ticker.s], priceData)
            ELSE [o EXCEPT !.rejected = ticker.s]

\* subscribe that sends SUBSCRIBE on every call, not only on the first
subscribe_AlwaysSends(o, symbol, callback) ==
  LET count == CountOf(o.subscriptionCounts, symbol)
      o1 == [o EXCEPT !.subscriptionCounts = MapSet(@, symbol, count + 1),
                      !.callbacks[symbol] = SetAdd(@, callback),
                      !.pendingSubscriptions = @ \cup {symbol},
                      !.sent = IF o.ws = "OPEN"
                                 THEN Append(@, Msg("SUBSCRIBE", <<StreamName(symbol)>>))
                                 ELSE @]
  IN IF o1.lastData[symbol] # Absent
       THEN [o1 EXCEPT !.calls = Append(@, Call(callback, o1.lastData[symbol])),
                       !.threw = callback \in Throwing]
       ELSE o1

\* subscribe that serves the cached value only over an open connection
subscribe_CacheOnlyWhenOpen(o, symbol, callback) ==
  LET count == CountOf(o.subscriptionCounts, symbol)
      o1 == [o EXCEPT !.subscriptionCounts = MapSet(@, symbol, count + 1),
                      !.callbacks[symbol] = SetAdd(@, callback)]
      o2 == IF count = 0
              THEN [o1 EXCEPT !.pendingSubscriptions = @ \cup {symbol},
                              !.sent = IF o1.ws = "OPEN"
                                         THEN Append(@, Msg("SUBSCRIBE", <<StreamName(symbol)>>))
                                         ELSE @]
              ELSE o1
  IN IF o2.lastData[symbol] # Absent /\ o2.ws = "OPEN"
       THEN [o2 EXCEPT !.calls = Append(@, Call(callback, o2.lastData[symbol])),
                       !.threw = callback \in Throwing]
       ELSE o2

\* subscribe(symbol, callback): callback(lastData.data) is not in a try block
subscribe(o, symbol, callback) ==
  LET count == CountOf(o.subscriptionCounts, symbol)
      o1 == [o EXCEPT !.subscriptionCounts = MapSet(@, symbol, count + 1),
                      !.callbacks[symbol] = SetAdd(@, callback)]
      o2 == IF count = 0
              THEN [o1 EXCEPT !.pendingSubscriptions = @ \cup {symbol},
                              !.sent = IF o1.ws = "OPEN"
                                         THEN Append(@, Msg("SUBSCRIBE", <<StreamName(symbol)>>))
                                         ELSE @]
              ELSE o1
  IN IF o2.lastData[symbol] # Absent
       THEN [Invoke(o2, callback, o2.lastData[symbol]) EXCEPT
               !.threw = callback \in Throwing]
       ELSE o2

\* getLastData(symbol)
getLastData(o, symbol) ==
  [o EXCEPT !.ret = IF o.lastData[symbol] = Absent THEN defaultData(symbol)
                    ELSE o.lastData[symbol]]

\* close()
close(o) ==
  LET o1 == cleanup(o, FALSE)
  IN [o1 EXCEPT !.connectionCheckInterval = FALSE,
                !.callbacks = [s \in Symbols |-> <<>>],
                !.subscriptionCounts = <<>>,
                !.lastData = [s \in AllSymbols |-> Absent],
                !.pendingSubscriptions = {},
                !.closed = TRUE]

\* initializeDefaultData that stores the placeholder of one default symbol only
initializeDefaultData_FirstOnly(o) ==
  [o EXCEPT !.lastData = [s \in AllSymbols |->
                            IF s = "BTCUSDT" THEN defaultData(s) ELSE @[s]]]

\* initializeDefaultData()
initializeDefaultData(o) ==
  [o EXCEPT !.lastData = [s \in AllSymbols |->
                            IF s \in defaultSymbols THEN defaultData(s) ELSE @[s]]]

(* History of the calls for one symbol since it last had no subscriber, while
   one connection stays open: live while every subscribe passed a callback not
   yet registered and every unsubscribe a registered one; n is the largest
   number of callbacks registered at once, subs and unsubs count the SUBSCRIBE and
   UNSUBSCRIBE messages naming the symbol's stream. *)
NoEpisode == [live |-> FALSE, n |-> 0, subs |-> 0, unsubs |-> 0]

RECURSIVE Occurrences(_, _)
Occurrences(q, x) ==
  IF q = <<>> THEN 0 ELSE (IF Head(q) = x THEN 1 ELSE 0) + Occurrences(Tail(q), x)

\* How often the messages of `sent` with this method name the symbol's stream
RECURSIVE CountMsgs(_, _, _)
CountMsgs(sent, method, symbol) ==
  IF sent = <<>> THEN 0
  ELSE (IF Head(sent).method = method
          THEN Occurrences(Head(sent).params, StreamName(symbol)) ELSE 0)
       + CountMsgs(Tail(sent), method, symbol)

TrackSubscribe(before, after, symbol, callback) ==
  LET e == before.episode[symbol]
      k == CountMsgs(after.sent, "SUBSCRIBE", symbol)
      fresh == /\ CountOf(before.subscriptionCounts, symbol) = 0
               /\ before.callbacks[symbol] = <<>>
      e1 == IF before.ws # "OPEN" THEN NoEpisode
            ELSE IF fresh THEN [live |-> TRUE, n |-> 1, subs |-> k, unsubs |-> 0]
            ELSE IF e.live /\ ~SetHas(before.callbacks[symbol], callback)
              THEN [e EXCEPT !.n = IF Len(after.callbacks[symbol]) > @
                                     THEN Len(after.callbacks[symbol]) ELSE @,
                             !.subs = @ + k]
            ELSE NoEpisode
  IN [after EXCEPT !.episode[symbol] = e1]

TrackUnsubscribe(before, after, symbol, callback) ==
  LET e == before.episode[symbol]
      k == CountMsgs(after.sent, "UNSUBSCRIBE", symbol)
      e1 == IF e.live /\ SetHas(before.callbacks[symbol], callback)
              THEN [e EXCEPT !.unsubs = @ + k]
              ELSE NoEpisode
  IN [after EXCEPT !.episode[symbol] = e1]

\* The streams requested after the messages of `sent`, in order, from the set R
RECURSIVE Requested(_, _)
Requested(R, sent) ==
  IF sent = <<>> THEN R
  ELSE LET m == Head(sent)
           streams == {m.params[i] : i \in 1..Len(m.params)}
       IN Requested(CASE m.method = "SUBSCRIBE"   -> R \cup streams
                      [] m.method = "UNSUBSCRIBE" -> R \ streams
                      [] OTHER                    -> R,
                    Tail(sent))

\* The step named op ends in the state o.
Commit(op, o) ==
  /\ ~o.over
  /\ ws' = o.ws
  /\ wsOwner' = o.wsOwner
  /\ subscriptionCounts' = o.subscriptionCounts
  /\ callbacks' = o.callbacks
  /\ pendingSubscriptions' = o.pendingSubscriptions
  /\ lastData' = o.lastData
  /\ reconnectAttempts' = o.reconnectAttempts
  /\ isReconnecting' = o.isReconnecting
  /\ isOnline' = o.isOnline
  /\ isInitialized' = o.isInitialized
  /\ heartbeatInterval' = o.heartbeatInterval
  /\ heartbeats' = o.heartbeats
  /\ slots' = o.slots
  /\ connectionCheckInterval' = o.connectionCheckInterval
  /\ stale' = o.stale
  /\ pongCheck' = o.pongCheck
  /\ loops' = o.loops
  /\ reconnectTimers' = o.reconnectTimers
  /\ boot' = o.boot
  /\ closed' = o.closed
  /\ episode' = IF o.ws = "OPEN" THEN o.episode ELSE [s \in Symbols |-> NoEpisode]
  /\ requested' = IF o.ws = "OPEN"
                    THEN Requested(IF ws = "OPEN" THEN requested ELSE {}, o.sent)
                    ELSE {}
  /\ out' = [op |-> op, threw |-> o.threw, created |-> o.created, sent |-> o.sent,
             calls |-> o.calls, ret |-> o.ret, rejected |-> o.rejected,
             logged |-> o.logged, closedBefore |-> closed]
  /\ node' = node

---------------------------------------------------------------------------
(* Inputs *)

\* Objects of the REST reply of /ticker/24hr
RestTickers == [symbol : Symbols, lastPrice : {"100", "-1"}, volume : VolumeFields]
RestReplies == {<<>>} \cup {<<t>> : t \in RestTickers}
                 \cup {<<t, u>> : t \in RestTickers, u \in RestTickers}

\* Inbound frames: text that is not JSON, a heartbeat acknowledgment, an event object
TickerEvents == [e : {"24hrTicker"}, s : Symbols \cup {undefined},
                 c : PriceFields, v : VolumeFields]
OtherEvents == [e : {"trade"}, s : {"BTCUSDT"}, c : {"100"}, v : {"7"}]
\* Ticker events sent inside a stream envelope {stream, data} or inside an array
WrappedEvents == [e : {"24hrTicker"}, s : Symbols, c : {"100", "-1"}, v : {"7"}]
Frames == {[shape |-> "unparseable"], [shape |-> "pong"]}
            \cup {[shape |-> "event", data |-> t] : t \in TickerEvents \cup OtherEvents}
            \cup {[shape |-> "envelope", stream |-> StreamName(t.s), data |-> t] :
                    t \in WrappedEvents}
            \cup {[shape |-> "array", elements |-> <<t>>] : t \in WrappedEvents}

---------------------------------------------------------------------------
(* Handlers *)

\* data.forEach(...) of fetchInitialData: Object.values(priceData) holds the symbol,
\* a string, so some(isNaN) is true whenever the symbol is not numeric text.
RECURSIVE storeInitialData(_, _)
storeInitialData(o, reply) ==
  IF reply = <<>> THEN o
  ELSE LET ticker == Head(reply)
           priceData == PriceData(ticker.symbol, OrZero(ParseFloat(ticker.lastPrice)),
                                  OrZero(ParseFloat(ticker.volume)))
           someNaN == IsNaNString(priceData.symbol)
           o1 == IF ~someNaN THEN [o EXCEPT !.lastData[ticker.symbol] = priceData] ELSE o
       IN storeInitialData(o1, Tail(reply))

\* startConnectionCheck(): sets the interval
startConnectionCheck(o) == [o EXCEPT !.connectionCheckInterval = TRUE]

\* startHeartbeat(): clears the interval that is set, then sets a new one
startHeartbeat(o) ==
  LET o1 == IF o.heartbeatInterval THEN [o EXCEPT !.heartbeats = @ - 1] ELSE o
  IN [o1 EXCEPT !.heartbeatInterval = TRUE, !.heartbeats = @ + 1]

\* initializeConnection() after `await this.fetchInitialData()` resolved
initializeConnectionResume(o, reply) ==
  LET o1 == storeInitialData(o, reply)
      o2 == connect(o1)
      o3 == startConnectionCheck(o2)
  IN [o3 EXCEPT !.isInitialized = TRUE, !.boot = "done"]

\* initializeConnection() after fetchInitialData threw: the catch only logs
initializeConnectionCatch(o) == [o EXCEPT !.boot = "failed"]

\* onopen whose onOpen does not clear the connect timeout of its attempt
onopen_TimeoutNotCleared(o) ==
  LET o1 == [o EXCEPT !.ws = "OPEN", !.reconnectAttempts = 0, !.isReconnecting = FALSE,
                      !.stale = FALSE,
                      !.pongCheck = IF @ = "unacked" THEN "acked" ELSE @]
  IN resubscribeAll(startHeartbeat(o1))

\* ws.onopen, then the onOpen of the tryConnect that installed it
onopen(o) ==
  LET o1 == [o EXCEPT !.ws = "OPEN", !.reconnectAttempts = 0, !.isReconnecting = FALSE,
                      !.stale = FALSE,
                      !.pongCheck = IF @ = "unacked" THEN "acked" ELSE @]
      o2 == resubscribeAll(startHeartbeat(o1))
  IN [o2 EXCEPT !.loops = IF o2.wsOwner = 0 THEN @ ELSE [@ EXCEPT ![o2.wsOwner] = 0],
                !.wsOwner = 0]

\* data.e of the parsed frame: an envelope {stream, data} and an array have no
\* property e
EventType(frame) == IF frame.shape = "event" THEN frame.data.e ELSE undefined

\* ws.onmessage without the try/catch: the error of JSON.parse leaves the handler
onmessage_NoCatch(o, frame) ==
  LET o1 == [o EXCEPT !.stale = FALSE]
  IN CASE frame.shape = "unparseable" -> [o1 EXCEPT !.threw = TRUE]
       [] frame.shape = "pong" ->
            [o1 EXCEPT !.pongCheck = IF @ = "unacked" THEN "acked" ELSE @]
       [] OTHER ->
            IF EventType(frame) = "24hrTicker" THEN processTicker(o1, frame.data) ELSE o1

\* ws.onmessage
onmessage(o, frame) ==
  LET o1 == [o EXCEPT !.stale = FALSE]
  IN CASE frame.shape = "unparseable" -> [o1 EXCEPT !.logged = TRUE]
       [] frame.shape = "pong" ->
            [o1 EXCEPT !.pongCheck = IF @ = "unacked" THEN "acked" ELSE @]
       [] OTHER ->
            IF EventType(frame) = "24hrTicker" THEN processTicker(o1, frame.data) ELSE o1

\* ws.onerror and ws.onclose
onerror(o) == handleReconnect(o)
onclose(o) == handleReconnect(o)

\* The connect-timeout callback of loop L, then the loop's continuation
connectTimeout(o, L) ==
  IF o.ws # "OPEN"
    THEN LET o1 == cleanup(o, FALSE)
         IN IF o1.loops[L] < NumEndpoints
              THEN tryConnect(o1, L, o1.loops[L] + 1)
              ELSE handleReconnect([o1 EXCEPT !.loops[L] = 0])
    ELSE [o EXCEPT !.loops[L] = 0]

\* The setTimeout callbacks of handleReconnect
reconnectTimer(o, t) ==
  LET o1 == [o EXCEPT !.reconnectTimers = @ (-) SetToBag({t})]
      o2 == IF t.kind = "cooldown" THEN [o1 EXCEPT !.reconnectAttempts = 0] ELSE o1
  IN connect([o2 EXCEPT !.isReconnecting = FALSE])

\* The setInterval callback of startHeartbeat
heartbeatTick(o) ==
  IF o.ws = "OPEN"
    THEN [o EXCEPT !.sent = Append(@, Msg("ping", <<>>)), !.pongCheck = "unacked"]
    ELSE o

\* The setTimeout callback of the heartbeat: Date.now() - lastPongTime > pongTimeout
pongTimeoutCheck(o) ==
  LET o1 == [o EXCEPT !.pongCheck = "none"]
  IN IF o.pongCheck = "unacked" THEN cleanup(o1, TRUE) ELSE o1

\* The staleness check tearing the socket down with cleanup(true)
connectionCheck_ViaReconnect(o) ==
  IF o.stale /\ ~o.isReconnecting /\ o.isOnline THEN cleanup(o, TRUE) ELSE o

\* The setInterval callback of startConnectionCheck
connectionCheck(o) ==
  IF o.stale /\ ~o.isReconnecting /\ o.isOnline THEN connect(o) ELSE o

\* The online listener with a processRetryQueue that returns, so that its
\* connect() is reached
online_Connects(o) == connect([o EXCEPT !.isOnline = TRUE, !.reconnectAttempts = 0])

\* The window listeners; processRetryQueue and verifyConnection are not methods
\* of the class, so calling them throws a TypeError.
online(o) == [o EXCEPT !.isOnline = TRUE, !.reconnectAttempts = 0, !.threw = TRUE]
offline(o) == cleanup([o EXCEPT !.isOnline = FALSE], FALSE)
focus(o) == IF o.isOnline THEN [o EXCEPT !.threw = TRUE] ELSE o

---------------------------------------------------------------------------
(* The Node client: class BinanceWebSocket of src/unnamed/part_014, lines    *)
(* 622-1011.  Its fields are the fields of the record `node`; what the last *)
(* step did (op, threw, created, sent, calls) is kept in the same record.   *)
(* The registry, the cache, the connection handle and the reconnect timers   *)
(* are modelled; the connect timeout, lastMessageTime and lastPongTime and   *)
(* the timers that read them are not.                                        *)

\* A snapshot of the Node client: its numbers are kept as JS numbers, since
\* fetchInitialData stores parseFloat(...) as it is, NaN included.
Node_PriceData(sym, p, v) == [symbol |-> sym, price |-> p, volume |-> v]

(* Map<string, Set<callback>> in insertion order: a sequence of <<symbol, Set>> *)
Node_get(m, k) == IF MapHas(m, k) THEN m[CHOOSE i \in 1..Len(m) : m[i][1] = k][2] ELSE <<>>

\* The constructor up to the await of initializeConnection
Node_constructor ==
  [ws |-> "null",                 \* "null", "CONNECTING", "OPEN", "CLOSED"
   subscribers |-> <<>>,
   reconnectAttempts |-> 0,
   lastData |-> [s \in Symbols |-> Absent],
   isReconnecting |-> FALSE,
   heartbeatInterval |-> FALSE,
   connectionCheckInterval |-> FALSE,
   pendingSubscriptions |-> {},
   initialDataFetched |-> FALSE,
   boot |-> "fetching",           \* initializeConnection: "fetching", "done"
   reconnectTimers |-> EmptyBag,  \* pending setTimeout callbacks of handleReconnect
   fetches |-> {},                \* pending fetchSymbolData(symbol).then(callback)
   episode |-> [s \in Symbols |-> NoEpisode],
   op |-> "constructor", threw |-> FALSE, created |-> 0, sent |-> <<>>, calls |-> <<>>,
   over |-> FALSE]

\* The object at the start of a handler
Node_Self ==
  [node EXCEPT !.threw = FALSE, !.created = 0, !.sent = <<>>, !.calls = <<>>]

Node_AddTimer(n, t) ==
  IF BagCardinality(n.reconnectTimers) >= MaxTimers
    THEN [n EXCEPT !.over = TRUE]
    ELSE [n EXCEPT !.reconnectTimers = @ (+) SetToBag({t})]

\* handleReconnect()
Node_handleReconnect(n) ==
  IF n.isReconnecting THEN n
  ELSE IF n.reconnectAttempts < maxReconnectAttempts
    THEN Node_AddTimer([n EXCEPT !.reconnectAttempts = @ + 1],
                       Timer("backoff", n.reconnectAttempts + 1))
    ELSE Node_AddTimer(n, Timer("cooldown", n.reconnectAttempts))

\* cleanup(): removeAllListeners, terminate if open, null the handle, stop the
\* heartbeat
Node_cleanup(n) == [n EXCEPT !.ws = "null", !.heartbeatInterval = FALSE]

\* connect()
Node_connect(n) ==
  IF n.isReconnecting THEN n
  ELSE LET n1 == Node_cleanup([n EXCEPT !.isReconnecting = TRUE])
       IN [n1 EXCEPT !.ws = "CONNECTING", !.created = @ + 1]

\* resubscribeAll()
Node_resubscribeAll(n) ==
  IF n.ws = "OPEN" /\ Len(n.subscribers) > 0
    THEN LET keys == MapKeys(n.subscribers)
             streams == [i \in 1..Len(keys) |-> StreamName(keys[i])]
         IN [n EXCEPT !.sent = Append(@, Msg("SUBSCRIBE", streams))]
    ELSE n

\* processTicker(ticker)
Node_processTicker(n, ticker) ==
  IF ticker.s = undefined THEN n
  ELSE LET priceData == Node_PriceData(ticker.s, Num(OrZero(ParseFloat(ticker.c))),
                                       Num(OrZero(ParseFloat(ticker.v))))
           q == Node_get(n.subscribers, ticker.s)
       IN IF priceData.price.val > 0
            THEN [n EXCEPT !.lastData[ticker.s] = priceData,
                           !.calls = @ \o [i \in 1..Len(q) |-> Call(q[i], priceData)]]
            ELSE n

\* subscribe(symbol, callback): an exception of callback(lastData) ends the call
Node_subscribe(n, symbol, callback) ==
  LET n1 == IF ~MapHas(n.subscribers, symbol)
              THEN [n EXCEPT !.subscribers = Append(@, <<symbol, <<>>>>),
                             !.pendingSubscriptions = @ \cup {symbol}]
              ELSE n
      n2 == [n1 EXCEPT !.subscribers = MapSet(@, symbol, SetAdd(Node_get(@, symbol), callback))]
      cached == n2.lastData[symbol]
      n3 == IF cached # Absent
              THEN [n2 EXCEPT !.calls = Append(@, Call(callback, cached)),
                              !.threw = callback \in Throwing]
              ELSE IF n2.initialDataFetched
                THEN [n2 EXCEPT !.fetches = @ \cup {<<symbol, callback>>}]
                ELSE n2
  IN IF n3.threw THEN n3
     ELSE IF n3.ws # "OPEN" THEN Node_connect(n3)
     ELSE [n3 EXCEPT !.sent = Append(@, Msg("SUBSCRIBE", <<StreamName(symbol)>>))]

\* unsubscribe(symbol, callback)
Node_unsubscribe(n, symbol, callback) ==
  IF ~MapHas(n.subscribers, symbol) THEN n
  ELSE LET q == SetDelete(Node_get(n.subscribers, symbol), callback)
       IN IF q = <<>>
            THEN [n EXCEPT !.subscribers = MapDelete(@, symbol),
                           !.pendingSubscriptions = @ \ {symbol},
                           !.sent = IF n.ws = "OPEN"
                                      THEN Append(@, Msg("UNSUBSCRIBE", <<StreamName(symbol)>>))
                                      ELSE @]
            ELSE [n EXCEPT !.subscribers = MapSet(@, symbol, q)]

\* close()
Node_close(n) ==
  [Node_cleanup(n) EXCEPT !.connectionCheckInterval = FALSE,
                          !.subscribers = <<>>,
                          !.lastData = [s \in Symbols |-> Absent],
                          !.pendingSubscriptions = {}]

\* data.forEach(...) of fetchInitialData
RECURSIVE Node_storeInitialData(_, _)
Node_storeInitialData(n, reply) ==
  IF reply = <<>> THEN n
  ELSE LET ticker == Head(reply)
           priceData == Node_PriceData(ticker.symbol, ParseFloat(ticker.lastPrice),
                                       ParseFloat(ticker.volume))
       IN Node_storeInitialData([n EXCEPT !.lastData[ticker.symbol] = priceData],
                                Tail(reply))

\* initializeConnection() after `await this.fetchInitialData()` resolved
Node_initializeConnectionResume(n, reply) ==
  LET n1 == [Node_storeInitialData(n, reply) EXCEPT !.initialDataFetched = TRUE]
      n2 == Node_connect(n1)
  IN [n2 EXCEPT !.connectionCheckInterval = TRUE, !.boot = "done"]

\* fetchSymbolData(symbol) resolved with a ticker, then callback(data)
Node_fetchSymbolDataResume(n, symbol, callback, ticker) ==
  LET priceData == Node_PriceData(ticker.symbol, ParseFloat(ticker.lastPrice),
                                  ParseFloat(ticker.volume))
  IN [n EXCEPT !.fetches = @ \ {<<symbol, callback>>},
               !.lastData[symbol] = priceData,
               !.calls = Append(@, Call(callback, priceData))]

\* ws.on('open')
Node_onopen(n) ==
  LET n1 == [n EXCEPT !.ws = "OPEN", !.reconnectAttempts = 0,
                      !.isReconnecting = FALSE, !.heartbeatInterval = TRUE]
  IN Node_resubscribeAll(n1)

\* ws.on('message')
Node_onmessage(n, frame) ==
  CASE frame.shape \in {"unparseable", "pong"} -> n
    [] OTHER ->
         IF EventType(frame) = "24hrTicker" THEN Node_processTicker(n, frame.data) ELSE n

\* ws.on('error') and ws.on('close')
Node_onerror(n) == Node_handleReconnect(n)
Node_onclose(n) == Node_handleReconnect(n)

\* The setTimeout callbacks of handleReconnect
Node_reconnectTimer(n, t) ==
  LET n1 == [n EXCEPT !.reconnectTimers = @ (-) SetToBag({t})]
      n2 == IF t.kind = "cooldown" THEN [n1 EXCEPT !.reconnectAttempts = 0] ELSE n1
  IN Node_connect([n2 EXCEPT !.isReconnecting = FALSE])

---------------------------------------------------------------------------
(* The state machine *)

\* The client after its constructor, explored with sl.loops loops and sl.timers
\* pending reconnect timers
Constructed(sl) ==
  /\ slots = sl
  /\ requested = {}
  /\ ws = "null"
  /\ wsOwner = 0
  /\ subscriptionCounts = <<>>
  /\ callbacks = [s \in Symbols |-> <<>>]
  /\ pendingSubscriptions = {}
  /\ lastData = initializeDefaultData([lastData |-> [s \in AllSymbols |-> Absent]]).lastData
  /\ reconnectAttempts = 0
  /\ isReconnecting = FALSE
  /\ isOnline = TRUE
  /\ isInitialized = FALSE
  /\ heartbeatInterval = FALSE
  /\ heartbeats = 0
  /\ connectionCheckInterval = FALSE
  /\ stale = FALSE
  /\ pongCheck = "none"
  /\ loops = [i \in 1..sl.loops |-> 0]
  /\ reconnectTimers = EmptyBag
  /\ boot = "fetching"
  /\ closed = FALSE
  /\ episode = [s \in Symbols |-> NoEpisode]
  /\ out = [op |-> "constructor", threw |-> FALSE, created |-> 0, sent |-> <<>>,
            calls |-> <<>>, ret |-> Absent, rejected |-> "none",
            logged |-> FALSE, closedBefore |-> FALSE]
  /\ node = Node_constructor

Init == Constructed([loops |-> MaxLoops, timers |-> MaxTimers])

FetchResolved ==
  /\ boot = "fetching"
  /\ \E reply \in RestReplies : Commit("fetchResolved", initializeConnectionResume(Self, reply))

FetchRejected ==
  /\ boot = "fetching"
  /\ Commit("fetchRejected", initializeConnectionCatch(Self))

SocketOpen ==
  /\ ws = "CONNECTING"
  /\ Commit("onopen", onopen(Self))

\* A failed connection: readyState CLOSED, then the error and the close event
SocketError ==
  /\ ws \in {"CONNECTING", "OPEN"}
  /\ Commit("onerror", onclose(onerror([Self EXCEPT !.ws = "CLOSED"])))

\* A connection the server closed: readyState CLOSED, then the close event
SocketClose ==
  /\ ws = "OPEN"
  /\ Commit("onclose", onclose([Self EXCEPT !.ws = "CLOSED"]))

Message(F) ==
  /\ ws = "OPEN"
  /\ \E frame \in F : Commit("onmessage", onmessage(Self, frame))

ConnectTimeout ==
  \E L \in DOMAIN loops :
    /\ loops[L] # 0
    /\ Commit("connectTimeout", connectTimeout(Self, L))

ReconnectTimer ==
  \E t \in BagToSet(reconnectTimers) : Commit("reconnectTimer", reconnectTimer(Self, t))

\* pingInterval exceeds pongTimeout: the check of a ping runs before the next ping
HeartbeatTick ==
  /\ heartbeatInterval
  /\ ws = "OPEN"
  /\ pongCheck = "none"
  /\ Commit("heartbeat", heartbeatTick(Self))

PongTimeoutCheck ==
  /\ pongCheck # "none"
  /\ Commit("pongTimeout", pongTimeoutCheck(Self))

ConnectionCheck ==
  /\ connectionCheckInterval
  /\ stale
  /\ Commit("connectionCheck", connectionCheck(Self))

\* 60 s go by without an inbound frame
TimePasses ==
  /\ ~stale
  /\ Commit("timePasses", [Self EXCEPT !.stale = TRUE])

Online ==
  /\ ~isOnline
  /\ Commit("online", online(Self))

Offline ==
  /\ isOnline
  /\ Commit("offline", offline(Self))

Focus ==
  /\ boot \in {"fetching", "done", "failed"}
  /\ Commit("focus", focus(Self))

Subscribe(P) ==
  \E p \in P :
    /\ CountOf(subscriptionCounts, p[1]) < MaxCount
    /\ Commit("subscribe", TrackSubscribe(Self, subscribe(Self, p[1], p[2]), p[1], p[2]))

Unsubscribe(P) ==
  \E p \in P :
    /\ CountOf(subscriptionCounts, p[1]) >= 0
    /\ Commit("unsubscribe", TrackUnsubscribe(Self, unsubscribe(Self, p[1], p[2]), p[1], p[2]))

GetLastData(S) ==
  \E s \in S :
    /\ s \in AllSymbols
    /\ Commit("getLastData", getLastData(Self, s))

\* close() may be called again after close()
Close ==
  /\ closed \in BOOLEAN
  /\ Commit("close", close(Self))

(* The connection: its lifecycle, its timers and the window events, with    *)
(* the registry left as constructed                                        *)

SomeFrames == {f \in Frames :
                 /\ f.shape \in {"unparseable", "pong", "event"}
                 /\ f.shape = "event" =>
                      /\ f.data.e = "24hrTicker"
                      /\ f.data.s = "BTCUSDT"
                      /\ f.data.c \in {"100", "-1"}
                      /\ f.data.v = "7"}

Next ==
  \/ FetchResolved \/ FetchRejected
  \/ SocketOpen \/ SocketError \/ SocketClose \/ Message(SomeFrames)
  \/ ConnectTimeout \/ ReconnectTimer
  \/ HeartbeatTick \/ PongTimeoutCheck \/ ConnectionCheck \/ TimePasses
  \/ Online \/ Offline \/ Focus
  \/ Close

Spec == Init /\ [][Next]_vars

(* The registry and the cache with every symbol, callback and frame of the *)
(* model, over connections that open, are lost and are re-established      *)

\* The <<symbol, callback>> pairs callers pass: every callback for BTCUSDT,
\* one for DOGEUSDT
CallSites == {<<"BTCUSDT", cb>> : cb \in Callbacks} \cup {<<"DOGEUSDT", "cb1">>}

\* Every shape of frame, with one volume
RegFrames == {f \in Frames : f.shape = "event" => f.data.v = "7"}

NextReg ==
  \/ FetchResolved
  \/ SocketOpen \/ SocketClose \/ Message(RegFrames)
  \/ ReconnectTimer
  \/ Subscribe(CallSites) \/ Unsubscribe(CallSites)
  \/ GetLastData(Symbols) \/ Close

SpecReg == Init /\ [][NextReg]_vars

(* The inbound frames of every shape and value of the model, delivered to   *)
(* callbacks that return and to one that unsubscribes itself                *)

FeedSites == {<<"DOGEUSDT", "cb1">>, <<"DOGEUSDT", "cb4">>, <<"DOGEUSDT", "cb2">>,
              <<"BTCUSDT", "cb4">>}

NextFeed ==
  \/ FetchResolved
  \/ SocketOpen \/ SocketClose \/ Message(Frames)
  \/ ReconnectTimer
  \/ Subscribe(FeedSites) \/ Unsubscribe(FeedSites)
  \/ Close

SpecFeed == Init /\ [][NextFeed]_vars

(* Frames delivered to a callback that subscribes another callback for the *)
(* symbol while it is notified                                             *)

FanoutSites == {<<"DOGEUSDT", "cb5">>, <<"DOGEUSDT", "cb1">>, <<"DOGEUSDT", Subscribed>>}

NextFanout ==
  \/ FetchResolved
  \/ SocketOpen \/ SocketClose \/ Message(Frames)
  \/ ReconnectTimer
  \/ Subscribe(FanoutSites) \/ Unsubscribe(FanoutSites)

SpecFanout == Init /\ [][NextFanout]_vars

(* The reconnect counter up to its ceiling: losses in bursts, explored with  *)
(* more loops and more pending timers.  The timers fire in the order of     *)
(* their delays, the connection opens once no timer is pending, and the     *)
(* connect timeout of an earlier loop fires while the connection is lost    *)
(* and no attempt is in progress.  The network drops when the first         *)
(* cooldown is pending behind the backoff timers of the burst and returns   *)
(* once the backoff timers have fired.  The bootstrap reply is empty.       *)

CeilingLoops == 6
CeilingTimers == 17

InitCeiling == Constructed([loops |-> CeilingLoops, timers |-> CeilingTimers])

\* The pending timer t fires before the others: the smaller delay first
Earliest(t) ==
  \A u \in BagToSet(reconnectTimers) :
    t.delay < u.delay \/ (t.delay = u.delay /\ t.n <= u.n)

Ceiling_FetchResolved ==
  /\ boot = "fetching"
  /\ Commit("fetchResolved", initializeConnectionResume(Self, <<>>))

Ceiling_SocketOpen ==
  /\ reconnectTimers = EmptyBag
  /\ SocketOpen

Ceiling_ConnectTimeout ==
  /\ ~isReconnecting
  /\ ws \notin {"OPEN", "CONNECTING"}
  /\ ConnectTimeout

Ceiling_ReconnectTimer ==
  \E t \in BagToSet(reconnectTimers) :
    /\ Earliest(t)
    /\ Commit("reconnectTimer", reconnectTimer(Self, t))

Ceiling_Offline ==
  /\ reconnectAttempts = maxReconnectAttempts
  /\ CopiesIn(Cooldown, reconnectTimers) = 1
  /\ BagCardinality(reconnectTimers) = maxReconnectAttempts + 1
  /\ Offline

Ceiling_Online ==
  /\ BagCardinality(reconnectTimers) <= 1
  /\ Online

NextCeiling ==
  \/ Ceiling_FetchResolved
  \/ Ceiling_SocketOpen \/ SocketError
  \/ Ceiling_ConnectTimeout \/ Ceiling_ReconnectTimer
  \/ HeartbeatTick \/ PongTimeoutCheck
  \/ Ceiling_Offline \/ Ceiling_Online

SpecCeiling == InitCeiling /\ [][NextCeiling]_vars


(* The Node client of src/unnamed/part_014 *)

\* The step named op of the Node client ends in the state n.
Node_Commit(op, n) ==
  /\ ~n.over
  /\ node' = [n EXCEPT !.op = op,
                       !.episode = IF n.ws = "OPEN" THEN @ ELSE [s \in Symbols |-> NoEpisode]]
  /\ UNCHANGED <<ws, wsOwner, subscriptionCounts, callbacks, pendingSubscriptions, lastData,
                 reconnectAttempts, isReconnecting, isOnline, isInitialized,
                 heartbeatInterval, heartbeats, connectionCheckInterval, stale, pongCheck,
                 loops,
                 reconnectTimers, boot, closed, episode, out, slots, requested>>

\* History of the subscribe calls for one symbol on an open connection: the
\* calls with callbacks not yet registered, up to the first unsubscribe
Node_TrackSubscribe(before, after, symbol, callback) ==
  LET e == before.episode[symbol]
      k == CountMsgs(after.sent, "SUBSCRIBE", symbol)
      e1 == IF before.ws # "OPEN" \/ after.threw THEN NoEpisode
            ELSE IF ~MapHas(before.subscribers, symbol)
              THEN [live |-> TRUE, n |-> 1, subs |-> k, unsubs |-> 0]
            ELSE IF /\ e.live /\ ~SetHas(Node_get(before.subscribers, symbol), callback)
                    /\ Len(Node_get(before.subscribers, symbol)) = e.n
              THEN [e EXCEPT !.n = IF Len(Node_get(after.subscribers, symbol)) > @
                                     THEN Len(Node_get(after.subscribers, symbol)) ELSE @,
                             !.subs = @ + k]
            ELSE NoEpisode
  IN [after EXCEPT !.episode[symbol] = e1]

\* History of the unsubscribe calls for one symbol on an open connection
Node_TrackUnsubscribe(before, after, symbol, callback) ==
  LET e == before.episode[symbol]
      k == CountMsgs(after.sent, "UNSUBSCRIBE", symbol)
      e1 == IF e.live /\ SetHas(Node_get(before.subscribers, symbol), callback)
              THEN [e EXCEPT !.unsubs = @ + k]
              ELSE NoEpisode
  IN [after EXCEPT !.episode[symbol] = e1]

Node_RestTickers == [symbol : Symbols, lastPrice : {"100"}, volume : {"7"}]
Node_RestReplies == {<<>>} \cup {<<t>> : t \in {u \in Node_RestTickers : u.symbol = "BTCUSDT"}}
Node_Frames == {f \in Frames :
                  /\ f.shape \in {"unparseable", "event"}
                  /\ f.shape = "event" =>
                       /\ f.data.e = "24hrTicker" /\ f.data.s \in Symbols
                       /\ f.data.c = "100" /\ f.data.v = "7"}

\* The <<symbol, callback>> pairs callers pass to the Node client
Node_CallSites == {<<"BTCUSDT", "cb1">>, <<"BTCUSDT", "cb2">>, <<"DOGEUSDT", "cb1">>}

Node_FetchResolved ==
  /\ node.boot = "fetching"
  /\ \E reply \in Node_RestReplies :
       Node_Commit("fetchResolved", Node_initializeConnectionResume(Node_Self, reply))

Node_SymbolFetched ==
  \E p \in node.fetches, t \in Node_RestTickers :
    /\ t.symbol = p[1]
    /\ Node_Commit("symbolFetched", Node_fetchSymbolDataResume(Node_Self, p[1], p[2], t))

\* fetchSymbolData failed: it returns null and the callback is not called
Node_SymbolFetchFailed ==
  \E p \in node.fetches :
    Node_Commit("symbolFetchFailed", [Node_Self EXCEPT !.fetches = @ \ {p}])

Node_SocketOpen ==
  /\ node.ws = "CONNECTING"
  /\ Node_Commit("onopen", Node_onopen(Node_Self))

\* A failed connection: the error event, then the close event
Node_SocketError ==
  /\ node.ws \in {"CONNECTING", "OPEN"}
  /\ Node_Commit("onerror", Node_onclose(Node_onerror([Node_Self EXCEPT !.ws = "CLOSED"])))

\* The close event of a connection the server closed
Node_SocketClose ==
  /\ node.ws = "OPEN"
  /\ Node_Commit("onclose", Node_onclose([Node_Self EXCEPT !.ws = "CLOSED"]))

Node_Message ==
  /\ node.ws = "OPEN"
  /\ \E frame \in Node_Frames : Node_Commit("onmessage", Node_onmessage(Node_Self, frame))

Node_ReconnectTimer ==
  \E t \in BagToSet(node.reconnectTimers) :
    Node_Commit("reconnectTimer", Node_reconnectTimer(Node_Self, t))

Node_Subscribe ==
  \E p \in Node_CallSites :
    /\ Len(Node_get(node.subscribers, p[1])) < MaxCount
    /\ Node_Commit("subscribe",
                   Node_TrackSubscribe(Node_Self, Node_subscribe(Node_Self, p[1], p[2]), p[1], p[2]))

Node_Unsubscribe ==
  \E p \in Node_CallSites :
    /\ Len(Node_get(node.subscribers, p[1])) >= 0
    /\ Node_Commit("unsubscribe",
                   Node_TrackUnsubscribe(Node_Self, Node_unsubscribe(Node_Self, p[1], p[2]), p[1], p[2]))

Node_Close ==
  /\ node.boot \in {"fetching", "done"}
  /\ Node_Commit("close", Node_close(Node_Self))

NextNode ==
  \/ Node_FetchResolved \/ Node_SymbolFetched \/ Node_SymbolFetchFailed
  \/ Node_SocketOpen \/ Node_SocketError \/ Node_SocketClose \/ Node_Message
  \/ Node_ReconnectTimer
  \/ Node_Subscribe \/ Node_Unsubscribe \/ Node_Close

SpecNode == Init /\ [][NextNode]_vars

---------------------------------------------------------------------------
(* The claims *)

NoLoop == \A L \in DOMAIN loops : loops[L] = 0

\* The connection is down, nothing that could start an attempt is pending, and
\* the guard of connect() and handleReconnect() is set.
Stuck ==
  /\ ~closed /\ isOnline /\ boot # "fetching"
  /\ ws \notin {"OPEN", "CONNECTING"}
  /\ NoLoop /\ reconnectTimers = EmptyBag
  /\ isReconnecting

\* C1: while close() has not been called and the network is online, the client
\* never ends in a state where the connection is down, no timer that can start
\* an attempt is pending and isReconnecting is true.
C1_NeverGivesUp == ~Stuck

\* From Stuck no step but close() resets isReconnecting or starts an attempt.
StuckIsForever ==
  [][(Stuck /\ ~closed') =>
       (isReconnecting' /\ out'.created = 0 /\ ws' \notin {"OPEN", "CONNECTING"}
        /\ reconnectTimers' = EmptyBag /\ (\A L \in DOMAIN loops : loops'[L] = 0))]_vars

\* C2: for a symbol without subscribers, on a connection that stays open, the
\* subscribe calls with distinct callbacks send exactly one SUBSCRIBE naming the
\* symbol's stream, and unsubscribing them sends exactly one UNSUBSCRIBE, on the
\* call that removes the last callback.
C2_Coalescing ==
  \A s \in Symbols :
    episode[s].live =>
      /\ episode[s].subs = 1
      /\ episode[s].unsubs = (IF callbacks[s] = <<>> THEN 1 ELSE 0)

\* Three callbacks were subscribed to one symbol and all of them unsubscribed.
C2_Witness ==
  \E s \in Symbols : episode[s].live /\ episode[s].n = 3 /\ callbacks[s] = <<>>

\* C3: for every symbol the reference count equals the size of its callback set.
C3_CountEqualsSize ==
  \A s \in Symbols : CountOf(subscriptionCounts, s) = Len(callbacks[s])

\* C4: when the open event fires, the SUBSCRIBE sent on the new connection names
\* the stream of every symbol that has a subscriber exactly once and of no other.
C4_Replay ==
  out.op = "onopen" =>
    \A s \in Symbols :
      CountMsgs(out.sent, "SUBSCRIBE", s) = (IF Len(callbacks[s]) >= 1 THEN 1 ELSE 0)

TimerOps == {"connectTimeout", "reconnectTimer", "pongTimeout", "heartbeat", "connectionCheck"}

\* C5: after close() no timer callback runs and no WebSocket is created.
C5_CloseIsFinal == closed => (out.op \notin TimerOps /\ out.created = 0)

\* A ticker event for symbol s whose price parses to a number above 0
ValidTicker(f, s) ==
  /\ f.shape = "event" /\ f.data.e = "24hrTicker" /\ f.data.s = s
  /\ ~ParseFloat(f.data.c).nan /\ ParseFloat(f.data.c).val > 0

\* A ticker event for symbol s whose price is absent, not a number, or not above 0
RejectedTicker(f, s) ==
  /\ f.shape = "event" /\ f.data.e = "24hrTicker" /\ f.data.s = s
  /\ (ParseFloat(f.data.c).nan \/ ParseFloat(f.data.c).val <= 0)

\* C6: a ticker frame with price > 0 invokes every callback registered for its
\* symbol exactly once, with the frame's snapshot, in the order of registration,
\* and no other callback.
C6_FanOut ==
  ws = "OPEN" =>
    \A s \in Symbols, f \in Frames :
      ValidTicker(f, s) =>
        LET r == onmessage(Self, f)
        IN /\ Len(r.calls) = Len(callbacks[s])
           /\ \A i \in 1..Len(r.calls) :
                /\ r.calls[i].cb = callbacks[s][i]
                /\ r.calls[i].data.symbol = s
                /\ r.calls[i].data.price = ParseFloat(f.data.c).val
                /\ r.calls[i].data.volume = ParseFloat(f.data.v).val

\* One frame for BTCUSDT was fanned out to its three callbacks while DOGEUSDT
\* had a callback of its own.
C6_Witness ==
  /\ out.op = "onmessage" /\ Len(out.calls) = 3
  /\ out.calls[1].data.symbol = "BTCUSDT"
  /\ \A i \in 1..3 : out.calls[i].cb = callbacks["BTCUSDT"][i]
  /\ callbacks["DOGEUSDT"] # <<>>

PublicOps == {"subscribe", "unsubscribe", "getLastData", "close"}

\* C7: subscribe, unsubscribe, getLastData and close never throw.
C7_NoThrow == out.op \in PublicOps => ~out.threw

\* C8: when a callback throws during the fan-out of a frame, every callback of
\* the symbol is still invoked, the cache holds the frame's snapshot, nothing is
\* thrown out of the handler and the connection, the counter and the timers are
\* as before.
C8_Isolation ==
  ws = "OPEN" =>
    \A s \in Symbols, f \in Frames :
      (ValidTicker(f, s) /\ \E i \in 1..Len(callbacks[s]) : callbacks[s][i] \in Throwing) =>
        LET r == onmessage(Self, f)
        IN /\ \A i \in 1..Len(callbacks[s]) :
                \E j \in 1..Len(r.calls) :
                  r.calls[j].cb = callbacks[s][i] /\ r.calls[j].data = r.lastData[s]
           /\ r.lastData[s].price = ParseFloat(f.data.c).val
           /\ ~r.threw
           /\ r.ws = ws /\ r.wsOwner = wsOwner
           /\ r.isReconnecting = isReconnecting
           /\ r.reconnectAttempts = reconnectAttempts
           /\ r.heartbeatInterval = heartbeatInterval
           /\ r.connectionCheckInterval = connectionCheckInterval
           /\ r.pongCheck = pongCheck
           /\ r.loops = loops /\ r.reconnectTimers = reconnectTimers

\* A callback threw during a fan-out and a callback registered after it was
\* invoked.
C8_Witness ==
  /\ out.op = "onmessage"
  /\ \E i, j \in 1..Len(out.calls) : i < j /\ out.calls[i].threw /\ ~out.calls[j].threw

\* C9: subscribe invokes the callback with the cached snapshot of the symbol
\* before it returns, whatever the state of the connection.
C9_CacheHit ==
  \A p \in CallSites :
    lastData[p[1]] # Absent =>
      LET r == subscribe(Self, p[1], p[2])
      IN /\ Len(r.calls) = 1
         /\ r.calls[1].cb = p[2]
         /\ r.calls[1].data = lastData[p[1]]

\* subscribe served a snapshot received earlier while the connection was down.
C9_Witness ==
  /\ out.op = "subscribe" /\ Len(out.calls) = 1
  /\ out.calls[1].data.price = 100
  /\ ws # "OPEN"

\* C10: a ticker frame whose price is not above 0 leaves a cache entry of price
\* above 0 as it was, and getLastData returns what it returned before.
C10_Rejection ==
  ws = "OPEN" =>
    \A s \in Symbols, f \in Frames :
      (RejectedTicker(f, s) /\ lastData[s] # Absent /\ lastData[s].price > 0) =>
        LET r == onmessage(Self, f)
        IN /\ r.lastData[s] = lastData[s]
           /\ getLastData(r, s).ret = getLastData(Self, s).ret

\* A ticker for a symbol was not stored while the cache held a price above 0.
C10_Witness ==
  /\ out.op = "onmessage" /\ out.rejected \in Symbols
  /\ lastData[out.rejected] # Absent
  /\ lastData[out.rejected].price > 0

\* C11: while the network is offline no step creates a WebSocket.
C11_OfflineSuspension == ~isOnline => out.created = 0

\* C12: the handler of the online signal resets the counter, returns normally
\* and, when no attempt is in progress, starts a connection attempt.
C12_OnlineResumption ==
  [][(~isOnline /\ isOnline') =>
       /\ reconnectAttempts' = 0
       /\ ~out'.threw
       /\ ~isReconnecting => (out'.created = 1 /\ ws' = "CONNECTING")]_vars

\* C13: when the bootstrap fetch fails while the network is online, connect()
\* opens a connection, the staleness check is started and the cache holds the
\* placeholders of the default symbols.
C13_BootstrapExhaustion ==
  (out.op = "fetchRejected" /\ isOnline /\ ~closed) =>
    /\ out.created = 1 /\ ws = "CONNECTING"
    /\ connectionCheckInterval
    /\ \A s \in defaultSymbols : lastData[s] = defaultData(s)

\* C14: on an open connection, the check of a ping that no pong answered nulls
\* the handle, stops the heartbeat, increments the counter and schedules the
\* reconnect timer.
C14_HeartbeatReconnect ==
  (ws = "OPEN" /\ pongCheck = "unacked"
     /\ BagCardinality(reconnectTimers) < slots.timers) =>
    LET r == pongTimeoutCheck(Self)
    IN /\ r.ws = "null"
       /\ ~r.heartbeatInterval
       /\ r.reconnectAttempts = reconnectAttempts + 1
       /\ r.reconnectTimers =
            reconnectTimers (+) SetToBag({Timer("backoff", reconnectAttempts + 1)})

\* The same for the states in which the network is online.
C14_HeartbeatReconnectOnline == isOnline => C14_HeartbeatReconnect

\* The callbacks invoked by the calls of a handler, in order
CalledBacks(calls) == [j \in 1..Len(calls) |-> calls[j].cb]

\* C15: when a callback registered for a symbol unsubscribes itself while it is
\* notified of a frame, nothing is thrown, every callback that was registered
\* for the symbol when the frame arrived is invoked exactly once, and the
\* unsubscribing callback is no longer registered.
C15_UnsubscribeInCallback ==
  ws = "OPEN" =>
    \A s \in Symbols, f \in Frames :
      (ValidTicker(f, s) /\ \E i \in 1..Len(callbacks[s]) : callbacks[s][i] \in Unsubscribing) =>
        LET r == onmessage(Self, f)
        IN /\ ~r.threw
           /\ \A i \in 1..Len(callbacks[s]) :
                Occurrences(CalledBacks(r.calls), callbacks[s][i]) = 1
           /\ \A i \in 1..Len(r.callbacks[s]) : r.callbacks[s][i] \notin Unsubscribing
           /\ \A i \in 1..Len(callbacks[s]) :
                callbacks[s][i] \notin Unsubscribing => SetHas(r.callbacks[s], callbacks[s][i])

\* A frame was delivered to three callbacks, the second of which unsubscribed
\* itself, and the two others are still registered.
C15_Witness ==
  /\ out.op = "onmessage" /\ Len(out.calls) = 3
  /\ out.calls[2].cb \in Unsubscribing
  /\ out.calls[3].cb = "cb2"
  /\ callbacks[out.calls[1].data.symbol] = <<"cb1", "cb2">>

\* A frame was delivered to a callback that was the only one of its symbol and
\* unsubscribed itself: the symbol has no callback and no count any more.
C15_WitnessOnly ==
  /\ out.op = "onmessage" /\ Len(out.calls) = 1
  /\ out.calls[1].cb \in Unsubscribing
  /\ callbacks[out.calls[1].data.symbol] = <<>>
  /\ ~MapHas(subscriptionCounts, out.calls[1].data.symbol)
  /\ Len(out.sent) = 1 /\ out.sent[1].method = "UNSUBSCRIBE"

\* C16: close() after close() does not throw and leaves the registry, the
\* counts, the cache and the pending set empty, the handle null and both
\* intervals cleared; it schedules no reconnect and starts no attempt; right
\* after a close() it changes nothing.
C16_IdempotentClose ==
  closed =>
    LET r == close(Self)
    IN /\ ~r.threw
       /\ \A s \in Symbols : r.callbacks[s] = <<>>
       /\ r.subscriptionCounts = <<>>
       /\ \A s \in AllSymbols : r.lastData[s] = Absent
       /\ r.pendingSubscriptions = {}
       /\ r.ws = "null"
       /\ ~r.heartbeatInterval /\ ~r.connectionCheckInterval
       /\ r.reconnectTimers = reconnectTimers /\ r.reconnectAttempts = reconnectAttempts
       /\ r.loops = loops /\ r.created = 0 /\ r.sent = <<>>
       /\ out.op = "close" => r = Self

\* close() was called a second time.
C16_Witness ==
  /\ out.op = "close" /\ out.closedBefore
  /\ ws = "null" /\ subscriptionCounts = <<>>
  /\ ~heartbeatInterval /\ ~connectionCheckInterval

\* The ticker payloads a frame carries: bare, in an envelope, or in an array
TickersOf(f) ==
  CASE f.shape = "event" -> IF f.data.e = "24hrTicker" THEN <<f.data>> ELSE <<>>
    [] f.shape = "envelope" -> <<f.data>>
    [] f.shape = "array" -> f.elements
    [] OTHER -> <<>>

\* C17: every ticker payload of a frame with a symbol and a price above 0 is
\* normalized and written to the cache, whatever the shape of the frame; a
\* heartbeat acknowledgment changes neither the cache nor the registry.
C17_FrameShapes ==
  ws = "OPEN" =>
    \A f \in Frames :
      LET r == onmessage(Self, f)
          ts == TickersOf(f)
      IN /\ \A i \in 1..Len(ts) :
              (ts[i].s # undefined /\ ~ParseFloat(ts[i].c).nan /\ ParseFloat(ts[i].c).val > 0) =>
                r.lastData[ts[i].s] =
                  PriceData(ts[i].s, ParseFloat(ts[i].c).val, OrZero(ParseFloat(ts[i].v)))
         /\ f.shape = "pong" =>
              /\ r.lastData = lastData /\ r.callbacks = callbacks
              /\ r.subscriptionCounts = subscriptionCounts
              /\ r.pendingSubscriptions = pendingSubscriptions

\* The same for the frames that are a bare ticker event or an acknowledgment.
C17_BareFrames ==
  ws = "OPEN" =>
    \A f \in {g \in Frames : g.shape \in {"event", "pong"}} :
      LET r == onmessage(Self, f)
          ts == TickersOf(f)
      IN /\ \A i \in 1..Len(ts) :
              (ts[i].s # undefined /\ ~ParseFloat(ts[i].c).nan /\ ParseFloat(ts[i].c).val > 0) =>
                r.lastData[ts[i].s] =
                  PriceData(ts[i].s, ParseFloat(ts[i].c).val, OrZero(ParseFloat(ts[i].v)))
         /\ f.shape = "pong" =>
              /\ r.lastData = lastData /\ r.callbacks = callbacks
              /\ r.subscriptionCounts = subscriptionCounts
              /\ r.pendingSubscriptions = pendingSubscriptions

\* A frame that is not JSON, or a ticker event without its symbol or its price
Malformed(f) ==
  \/ f.shape = "unparseable"
  \/ /\ f.shape = "event" /\ f.data.e = "24hrTicker"
     /\ (f.data.s = undefined \/ f.data.c = undefined)

\* C18: a malformed frame changes nothing but the time of the last message: the
\* cache, the registry, the handle, the guard, the counter and the timers are as
\* before, no callback is invoked, nothing is sent and nothing is thrown.
C18_MalformedDropped ==
  ws = "OPEN" =>
    \A f \in Frames :
      Malformed(f) =>
        [onmessage(Self, f) EXCEPT !.logged = FALSE, !.rejected = "none"]
          = [Self EXCEPT !.stale = FALSE]

\* A frame that is not JSON arrived while a symbol had callbacks, a cached
\* price and a count.
C18_Witness ==
  /\ out.op = "onmessage" /\ out.logged /\ out.calls = <<>>
  /\ \E s \in Symbols :
       /\ callbacks[s] # <<>> /\ MapHas(subscriptionCounts, s)
       /\ lastData[s] # Absent /\ lastData[s].price > 0

\* C19: every snapshot in the cache has a price and a volume that are not
\* negative (volume stands for the fields computed as it is: high24h, low24h).
C19_SnapshotInvariant ==
  \A s \in AllSymbols :
    lastData[s] # Absent => (lastData[s].price >= 0 /\ lastData[s].volume >= 0)

\* The price of every snapshot in the cache is not negative.
C19_PriceNotNegative ==
  \A s \in AllSymbols : lastData[s] # Absent => lastData[s].price >= 0

\* C20: until close() the cache has an entry for each default symbol, and an
\* entry that exists is kept or replaced by a snapshot of its symbol, never
\* removed.
C20_PlaceholderAvailability ==
  /\ [](~closed => \A s \in defaultSymbols : lastData[s] # Absent)
  /\ [][~closed' =>
          \A s \in AllSymbols :
            lastData[s] # Absent =>
              (lastData'[s] # Absent /\ lastData'[s].symbol = s)]_vars

\* The bootstrap fetch failed and the cache holds the three placeholders.
C20_Witness ==
  /\ boot = "failed" /\ ~closed
  /\ \A s \in defaultSymbols : lastData[s] = defaultData(s)

\* The bootstrap fetch succeeded and a frame replaced the placeholder of a
\* default symbol, the other placeholders being in place.
C20_WitnessReplaced ==
  /\ boot = "done" /\ ~closed
  /\ lastData["BTCUSDT"].price = 100
  /\ lastData["ETHUSDT"] = defaultData("ETHUSDT")

\* d, a number of 1/8 ms, is min(2000 * 1.5^n, 45000) ms:
\* 2000 * 3^n > 45000 * 2^n exactly when 2 * 3^n > 45 * 2^n
IsExpectedDelay(d, n) ==
  IF 2 * 3^n > 45 * 2^n THEN d = 45000 * 8
  ELSE d * 2^n = 2000 * 8 * 3^n

\* The delays of the attempts 1..15 as handleReconnect computes them
BackoffLaw ==
  /\ \A n \in 1..maxReconnectAttempts :
       /\ IsExpectedDelay(reconnectDelay(n), n)
       /\ reconnectDelay(n) <= 45000 * PerMs
       /\ n > 1 => reconnectDelay(n - 1) <= reconnectDelay(n)
  /\ reconnectDelay(1) = 3000 * PerMs

\* C21: the delay scheduled for attempt n, 1 <= n <= 15, is min(2000 * 1.5^n,
\* 45000) ms; it does not decrease with n, never exceeds 45000 ms and is 3000 ms
\* for n = 1; every pending backoff timer has the delay of its attempt.
C21_Backoff ==
  /\ BackoffLaw
  /\ \A t \in BagToSet(reconnectTimers) :
       t.kind = "backoff" =>
         (t.n \in 1..maxReconnectAttempts /\ IsExpectedDelay(t.delay, t.n))

\* The timers of a first and of a second attempt are pending, 3000 ms and
\* 4500 ms.
C21_Witness ==
  /\ \E t \in BagToSet(reconnectTimers) :
       t.kind = "backoff" /\ t.n = 1 /\ t.delay = 3000 * 8
  /\ \E t \in BagToSet(reconnectTimers) :
       t.kind = "backoff" /\ t.n = 2 /\ t.delay = 4500 * 8

\* C22: in the Node client, for a symbol without subscribers, on a connection
\* that stays open, the subscribe calls with distinct callbacks send exactly one
\* SUBSCRIBE naming the symbol's stream, and unsubscribing them sends exactly
\* one UNSUBSCRIBE.
C22_NodeCoalescing ==
  \A s \in Symbols :
    node.episode[s].live =>
      /\ node.episode[s].subs = 1
      /\ node.episode[s].unsubs = (IF MapHas(node.subscribers, s) THEN 0 ELSE 1)

\* The UNSUBSCRIBE half: one message, on the call that removes the last callback.
C22_NodeUnsubscribeOnce ==
  \A s \in Symbols :
    node.episode[s].live =>
      node.episode[s].unsubs = (IF MapHas(node.subscribers, s) THEN 0 ELSE 1)


\* The connectToEndpoints loops that are awaiting the promise of a tryConnect
LoopsInFlight == {L \in DOMAIN loops : loops[L] # 0}

\* C23: at most one connection attempt is in flight: connect() never creates a
\* socket while the loop of an earlier connect() is still awaiting its open
\* event or its connect timeout.
C23_SingleAttempt == Cardinality(LoopsInFlight) <= 1


\* C24: at most one timer scheduled by handleReconnect (backoff or cooldown)
\* is pending, also when one connection loss delivers an error event and a
\* close event.
C24_SingleReconnectTimer == BagCardinality(reconnectTimers) <= 1

\* What handleReconnect leaves when it takes a failure over: the counter
\* incremented and the backoff timer added, or the cooldown added at the ceiling
HandedOver(r) ==
  IF reconnectAttempts < maxReconnectAttempts
    THEN /\ r.reconnectAttempts = reconnectAttempts + 1
         /\ r.reconnectTimers =
              reconnectTimers (+) SetToBag({Timer("backoff", reconnectAttempts + 1)})
    ELSE /\ r.reconnectAttempts = reconnectAttempts
         /\ r.reconnectTimers =
              reconnectTimers (+) SetToBag({Timer("cooldown", reconnectAttempts)})

\* C25: when the connect timeout of the last endpoint of a connect() call fires
\* before the open event and the network is online, the handle is null, the
\* counter is incremented (or the cooldown started) and a reconnect timer is
\* pending.
C25_TimeoutHandoff ==
  \A L \in DOMAIN loops :
    (loops[L] = NumEndpoints /\ ws # "OPEN" /\ isOnline
       /\ BagCardinality(reconnectTimers) < slots.timers) =>
      LET r == connectTimeout(Self, L)
      IN /\ r.ws = "null"
         /\ r.loops[L] = 0
         /\ HandedOver(r)

\* C26: when an open connection emits an error event or a close event, handling
\* the event stops the heartbeat interval, nulls the handle and invokes
\* handleReconnect.
C26_ErrorCloseHandling ==
  (ws = "OPEN" /\ heartbeatInterval /\ ~isReconnecting /\ isOnline
     /\ BagCardinality(reconnectTimers) < slots.timers) =>
    \A r \in {onerror([Self EXCEPT !.ws = "CLOSED"]),
              onclose([Self EXCEPT !.ws = "CLOSED"])} :
      /\ ~r.heartbeatInterval
      /\ r.ws = "null"
      /\ HandedOver(r)

\* The last part alone: the event invokes handleReconnect.
C26_ReconnectInvoked ==
  (ws = "OPEN" /\ heartbeatInterval /\ ~isReconnecting /\ isOnline
     /\ BagCardinality(reconnectTimers) < slots.timers) =>
    \A r \in {onerror([Self EXCEPT !.ws = "CLOSED"]),
              onclose([Self EXCEPT !.ws = "CLOSED"])} : HandedOver(r)

\* C27: the open event of a connection attempt sets the counter to 0 and the
\* guard to false, sets lastMessageTime and lastPongTime to now, leaves exactly
\* one heartbeat interval running, and cancels the connect timeout of the
\* attempt; no connect timeout tears an open connection down.
C27_OpenHandling ==
  /\ [](ws = "CONNECTING" =>
          LET r == onopen(Self)
          IN /\ r.ws = "OPEN"
             /\ r.reconnectAttempts = 0
             /\ ~r.isReconnecting
             /\ ~r.stale
             /\ r.pongCheck # "unacked"
             /\ r.heartbeatInterval /\ r.heartbeats = 1
             /\ wsOwner # 0 /\ r.loops[wsOwner] = 0)
  /\ [][(ws = "OPEN" /\ out'.op = "connectTimeout") =>
          (ws' = "OPEN" /\ heartbeatInterval' /\ heartbeats' = 1)]_vars

\* A connection opened by a reconnect attempt, after failures that left the
\* counter above 0 and an unanswered ping of the previous connection.
C27_Witness ==
  /\ out.op = "onopen" /\ ws = "OPEN"
  /\ reconnectAttempts = 0 /\ ~isReconnecting /\ heartbeats = 1
  /\ reconnectTimers # EmptyBag
  /\ pongCheck = "acked"

\* The connect timeout of another attempt fires while the connection is open.
C27_WitnessTimeout ==
  /\ out.op = "connectTimeout" /\ ws = "OPEN" /\ heartbeats = 1


\* C28: a failure handled while the counter equals the ceiling and the network
\* is online leaves the counter as it is and schedules one 60000 ms cooldown;
\* when the cooldown fires the counter is 0 and a connection attempt starts.
C28_CeilingCooldown ==
  (reconnectAttempts = maxReconnectAttempts /\ isOnline
     /\ BagCardinality(reconnectTimers) < slots.timers) =>
    LET r == handleReconnect(Self)
        f == reconnectTimer(r, Cooldown)
    IN /\ r.reconnectAttempts = maxReconnectAttempts
       /\ r.reconnectTimers = reconnectTimers (+) SetToBag({Cooldown})
       /\ Cooldown.delay = 60000 * PerMs
       /\ f.reconnectAttempts = 0
       /\ FreeLoop(r) # 0 => (f.created = 1 /\ f.ws = "CONNECTING")

\* The same when no attempt is in progress: the else branch of handleReconnect.
C28_CeilingBranch == ~isReconnecting => C28_CeilingCooldown

\* At most one cooldown is pending.
C28_SingleCooldown == CopiesIn(Cooldown, reconnectTimers) <= 1

\* The counter at the ceiling with no attempt in progress, 15 backoff timers
\* pending.
C28_AtCeiling ==
  /\ reconnectAttempts = maxReconnectAttempts /\ isOnline /\ ~isReconnecting
  /\ NoLoop /\ BagCardinality(reconnectTimers) = maxReconnectAttempts

\* The staleness check finds a connection that is open, online and silent for
\* more than 60 s, with no attempt in progress.
StaleConnection ==
  /\ ws = "OPEN" /\ connectionCheckInterval
  /\ stale /\ ~isReconnecting /\ isOnline
  /\ FreeLoop(Self) # 0

\* C29: a tick of the staleness check on such a connection forces a reconnect:
\* the socket is torn down without a call of handleReconnect (counter and
\* timers as they were, heartbeat stopped) and a new attempt starts.
C29_StalenessCheck ==
  /\ [](StaleConnection =>
          LET r == connectionCheck(Self)
          IN /\ r.created = 1 /\ r.ws = "CONNECTING" /\ r.isReconnecting
             /\ r.loops[r.wsOwner] = 1
             /\ ~r.heartbeatInterval /\ r.heartbeats = 0
             /\ r.reconnectAttempts = reconnectAttempts
             /\ r.reconnectTimers = reconnectTimers)
  /\ [][(StaleConnection /\ out'.op = "connectionCheck") =>
          /\ out'.created = 1 /\ ws' = "CONNECTING" /\ isReconnecting'
          /\ ~heartbeatInterval'
          /\ reconnectAttempts' = reconnectAttempts
          /\ reconnectTimers' = reconnectTimers]_vars

\* A silent open connection before the tick, no reconnect timer pending.
C29_Witness == StaleConnection /\ reconnectTimers = EmptyBag /\ heartbeatInterval

\* After a tick that forced a reconnect: the attempt is in flight, nothing was
\* handed to handleReconnect.
C29_WitnessForced ==
  /\ out.op = "connectionCheck" /\ out.created = 1
  /\ ws = "CONNECTING" /\ reconnectTimers = EmptyBag /\ reconnectAttempts = 0

\* C30: while isReconnecting is true or the network is offline, connect()
\* changes nothing: the handle, the heartbeat, the loops and timers, the
\* counter, the registry and the cache are as before and no socket is created;
\* so is the connect() of a reconnect timer that fires while offline.
C30_ConnectNoOp ==
  /\ []((isReconnecting \/ ~isOnline) => connect(Self) = Self)
  /\ [][(~isOnline /\ out'.op = "reconnectTimer") =>
          /\ out'.created = 0
          /\ ws' = ws /\ wsOwner' = wsOwner /\ loops' = loops
          /\ heartbeatInterval' = heartbeatInterval /\ heartbeats' = heartbeats
          /\ BagCardinality(reconnectTimers') = BagCardinality(reconnectTimers) - 1
          /\ subscriptionCounts' = subscriptionCounts /\ callbacks' = callbacks
          /\ pendingSubscriptions' = pendingSubscriptions
          /\ lastData' = lastData]_vars

\* A reconnect timer fired while the network was offline and an earlier loop
\* awaited its connect timeout: connect() returned at its guard.
C30_Witness ==
  /\ out.op = "reconnectTimer" /\ ~isOnline /\ out.created = 0
  /\ ~isReconnecting /\ LoopsInFlight # {}

\* connect() would be called with an attempt in progress.
C30_WitnessInProgress == isReconnecting /\ isOnline /\ ws = "CONNECTING"

\* C31: no WebSocket is created before the bootstrap fetch has completed: while
\* it is pending the handle is null and no connect loop runs, whatever online,
\* offline and focus signals arrive, and the step that creates the first socket
\* is the continuation of initializeConnection, after the reply was stored.
C31_BootstrapOrdering ==
  /\ [](boot = "fetching" => (ws = "null" /\ NoLoop /\ out.created = 0))
  /\ [][(boot = "fetching" /\ out'.created > 0) =>
          (out'.op = "fetchResolved" /\ boot' = "done" /\ out'.created = 1)]_vars

\* The online signal arrived while the bootstrap fetch was pending.
C31_Witness ==
  /\ boot = "fetching" /\ out.op = "online" /\ isOnline
  /\ ws = "null" /\ ~isReconnecting

\* The first socket, created by the continuation of initializeConnection.
C31_WitnessFirstSocket ==
  /\ out.op = "fetchResolved" /\ out.created = 1 /\ ws = "CONNECTING"

\* C32: unsubscribe(symbol, cb) with a callback that is not registered for the
\* symbol changes nothing: the count, the callback set and the pending set are
\* as before and no message is sent.
C32_UnsubscribeUnregistered ==
  \A s \in Symbols, cb \in Callbacks :
    ~SetHas(callbacks[s], cb) =>
      LET r == unsubscribe(Self, s, cb)
      IN /\ r.subscriptionCounts = subscriptionCounts
         /\ r.callbacks = callbacks
         /\ r.pendingSubscriptions = pendingSubscriptions
         /\ r.sent = <<>>

\* The part that holds: the callback set is as before.
C32_CallbacksKept ==
  \A s \in Symbols, cb \in Callbacks :
    ~SetHas(callbacks[s], cb) => unsubscribe(Self, s, cb).callbacks = callbacks

\* C33: the loss of an open connection, reported by an error event and a close
\* event of the same socket, increments the counter exactly once.
C33_OneStepPerLoss ==
  (ws = "OPEN" /\ ~isReconnecting /\ isOnline
     /\ reconnectAttempts < maxReconnectAttempts
     /\ BagCardinality(reconnectTimers) + 2 <= slots.timers) =>
    LET r == onclose(onerror([Self EXCEPT !.ws = "CLOSED"]))
    IN r.reconnectAttempts = reconnectAttempts + 1

\* A loss reported by the close event alone increments the counter once.
C33_CloseAlone ==
  (ws = "OPEN" /\ ~isReconnecting /\ isOnline
     /\ reconnectAttempts < maxReconnectAttempts
     /\ BagCardinality(reconnectTimers) < slots.timers) =>
    onclose([Self EXCEPT !.ws = "CLOSED"]).reconnectAttempts = reconnectAttempts + 1

\* C34: the pong check of a ping sent on an earlier connection leaves a later
\* connection attempt alone: when it fires while a socket is connecting (pings
\* are sent on open sockets only), the handle, its loop and the reconnect
\* timers are as before.
C34_PongCheckOwnConnection ==
  (ws = "CONNECTING" /\ pongCheck # "none") =>
    LET r == pongTimeoutCheck(Self)
    IN /\ r.ws = "CONNECTING" /\ r.wsOwner = wsOwner
       /\ r.loops = loops
       /\ r.reconnectTimers = reconnectTimers
       /\ r.reconnectAttempts = reconnectAttempts

\* The part that holds: a connection that has just opened is not torn down by
\* the check of a ping sent before it opened.
C34_OpenedConnectionKept ==
  (out.op = "onopen" /\ ws = "OPEN" /\ pongCheck # "none") =>
    LET r == pongTimeoutCheck(Self)
    IN r.ws = "OPEN" /\ r.heartbeatInterval

\* C35: while the connection is open (its open handler done), the streams
\* requested on it are the streams of the symbols whose count is at least 1.
C35_RequestedMatchesCounts ==
  ws = "OPEN" =>
    requested = {StreamName(s) : s \in {x \in Symbols : CountOf(subscriptionCounts, x) >= 1}}

\* A connection re-established with both symbols counted, after one of them
\* was subscribed on it and the other replayed by the open handler.
C35_Witness ==
  /\ ws = "OPEN" /\ out.op = "subscribe" /\ Len(out.sent) = 1
  /\ requested = {StreamName("BTCUSDT"), StreamName("DOGEUSDT")}
  /\ CountOf(subscriptionCounts, "BTCUSDT") >= 2

\* A stream taken off the open connection by the unsubscribe that brought its
\* count to 0, the other stream staying.
C35_WitnessUnsubscribed ==
  /\ ws = "OPEN" /\ out.op = "unsubscribe" /\ Len(out.sent) = 1
  /\ Cardinality(requested) = 1

\* The open handler replayed two streams.
C35_WitnessReplayed ==
  /\ ws = "OPEN" /\ out.op = "onopen" /\ Cardinality(requested) = 2

\* C36: no callback is invoked more than once with the snapshot of one inbound
\* frame, also when a callback subscribes another callback for the symbol
\* while it is notified.
C36_OncePerFrame ==
  out.op = "onmessage" =>
    \A i, j \in 1..Len(out.calls) : i # j => out.calls[i].cb # out.calls[j].cb

\* The part that holds: a callback other than the one subscribed during the
\* fan-out is invoked at most once.
C36_RegisteredOncePerFrame ==
  out.op = "onmessage" =>
    \A i, j \in 1..Len(out.calls) :
      (i # j /\ out.calls[i].cb # Subscribed) => out.calls[i].cb # out.calls[j].cb

\* C37: the reconnect counter stays within 0..maxReconnectAttempts; a step
\* raises it only from a value below the ceiling; a step lowers it only to 0,
\* and that step is a successful open, the online signal or the expiry of the
\* cooldown.
C37_CounterDiscipline ==
  /\ [](reconnectAttempts \in 0..maxReconnectAttempts)
  /\ [][(reconnectAttempts' > reconnectAttempts =>
            reconnectAttempts < maxReconnectAttempts)
        /\ (reconnectAttempts' < reconnectAttempts =>
              /\ reconnectAttempts' = 0
              /\ \/ out'.op \in {"onopen", "online"}
                 \/ /\ out'.op = "reconnectTimer"
                    /\ CopiesIn(Cooldown, reconnectTimers') <
                         CopiesIn(Cooldown, reconnectTimers))]_vars

\* A failure is handled with the counter at the ceiling: the cooldown is
\* scheduled and the counter stays at the ceiling.
C37_Witness ==
  /\ reconnectAttempts = maxReconnectAttempts
  /\ out.op \in {"onerror", "pongTimeout"}
  /\ BagIn(Cooldown, reconnectTimers)

\* The cooldown expired and reset the counter.
C37_WitnessCooldownExpired ==
  /\ out.op = "reconnectTimer" /\ reconnectAttempts = 0
  /\ BagCardinality(reconnectTimers) = 0 /\ ~BagIn(Cooldown, reconnectTimers)
  /\ isReconnecting

\* The online signal reset a counter that had reached the ceiling.
C37_WitnessOnline ==
  /\ out.op = "online" /\ reconnectAttempts = 0
  /\ BagIn(Cooldown, reconnectTimers)

====
